---- MODULE Spec2Model ----
(***************************************************************************)
(* PingPongBot (src/src/index.ts): a bot that answers every Ping() event   *)
(* of a contract with one pong() transaction.  The model covers the state  *)
(* file (BotStateManagerFS), the two queues (Queue), the drain handler     *)
(* (Bot.queueHandle / sendPong / handleErrorPong), the reconciliation pass *)
(* (Bot.catchMissedEventsFromTo), the start-up sequence (Bot.init), the    *)
(* live Ping handler, and abrupt process termination followed by restart.  *)
(*                                                                         *)
(* The chain is a fixed assignment of Ping events to blocks; its head      *)
(* grows.  Every await of the source is a point where the handlers         *)
(* interleave; everything between two awaits is one atomic action.         *)
(***************************************************************************)
EXTENDS Integers, Sequences, FiniteSets, Bags, TLC

\* ------------------------------------------------------------- bounds ----
NumEvents == 2          \* Ping events on the chain: transaction hashes 1..NumEvents
MaxHead == 3            \* the chain head stops growing here
MaxPasses == 2          \* reconciliation interval callbacks suspended at once

\* ---------------------------------------------------- program constants --
ConfigLastBlock == 1    \* Configuration._lastBlock (7979028, scaled down)
DefaultGasLimit == 50000
CommonGasModifier == 1
ForceGasModifier == 2

COMMON_PING_EVENT_QUEUE == "Common_Ping_Event_Queue"
FORCE_PING_EVENT_QUEUE == "Force_Ping_Event_Queue"
QueueNames == {COMMON_PING_EVENT_QUEUE, FORCE_PING_EVENT_QUEUE}

\* ------------------------------------------------------------ the chain --
TxHashes == 1..NumEvents

\* The block of the Ping event with transaction hash h.
BlockOf(h) == ConfigLastBlock + h

\* EventLog: the two fields the bot reads.
EventLog(h) == [transactionHash |-> h, blockNumber |-> BlockOf(h)]

ChainEvents == [h \in TxHashes |-> EventLog(h)]

\* contract.queryFilter('Ping', fromBlock, toBlock): the Ping events of the
\* closed block range, in chain order.
InRange(e, fromBlock, toBlock) ==
    /\ e.blockNumber >= fromBlock
    /\ e.blockNumber <= toBlock

QueryFilter(fromBlock, toBlock) ==
    SelectSeq(ChainEvents, LAMBDA e : InRange(e, fromBlock, toBlock))

\* ------------------------------------------------------------ variables --
VARIABLES
    head,                \* chain: current block number
    ponged,              \* chain: Ping hashes with a confirmed pong (status 1)
    stateFile,           \* lastBlock.json: [exists, lastBlock, sentTransactions, failedTransactions]
    lastBlock,           \* BotStateManagerFS._lastBlock
    sentTransactions,    \* BotStateManagerFS._sentTransactions: hash -> blockNumber
    failedTransactions,  \* BotStateManagerFS._failedTransactions: hash -> blockNumber
    queue,               \* Queue.queue, per queue name
    lock,                \* Queue.lock, per queue name
    handling,            \* queueHandle invocations suspended in sendPong, per queue name
    initPc,              \* where Bot.init stands
    initLastBlock,       \* Bot.init: const lastBlock
    currentBlock,        \* Bot.init: const currentBlock (closure of the Ping handler)
    listening,           \* contract.on('Ping', ...) is registered
    delivered,           \* Ping hashes the subscription has notified to this process
    passes,              \* bag of the reconciliation interval callbacks that are suspended
    lastOp               \* the handler that ran last, with its arguments

vars == <<head, ponged, stateFile, lastBlock, sentTransactions, failedTransactions,
          queue, lock, handling, initPc, initLastBlock, currentBlock, listening,
          delivered, passes, lastOp>>

chainVars == <<head, ponged>>
storeVars == <<stateFile, lastBlock, sentTransactions, failedTransactions>>
queueVars == <<queue, lock, handling>>
initVars == <<initPc, initLastBlock, currentBlock, listening>>

\* ------------------------------------------------------------- helpers ---
EmptyMap == [h \in {} |-> 0]

\* obj[key] = value on a JS object used as a map.
Put(map, key, value) ==
    [k \in DOMAIN map \cup {key} |-> IF k = key THEN value ELSE map[k]]

NoBlock == -1
NoOp == [op |-> "constructor", q |-> "", tx |-> 0, fromBlock |-> NoBlock,
         toBlock |-> NoBlock, cleared |-> {}]

Op(name) == [NoOp EXCEPT !.op = name]

\* ------------------------------------------------------ BotStateManagerFS
\* saveState(): the whole snapshot replaces the file.
SaveState(lb, sent, failed) ==
    [exists |-> TRUE, lastBlock |-> lb, sentTransactions |-> sent,
     failedTransactions |-> failed]

NoFile == [exists |-> FALSE, lastBlock |-> 0, sentTransactions |-> EmptyMap,
           failedTransactions |-> EmptyMap]

\* Variant of LoadedLastBlock without the comparison of line 130.
LoadedLastBlockUnchecked(file) ==
    IF file.exists THEN file.lastBlock ELSE ConfigLastBlock

\* constructor: the fields after loading `file`.
LoadedLastBlock(file) ==
    IF file.exists /\ file.lastBlock >= ConfigLastBlock
    THEN file.lastBlock
    ELSE ConfigLastBlock

LoadedSent(file) == IF file.exists THEN file.sentTransactions ELSE EmptyMap

LoadedFailed(file) == IF file.exists THEN file.failedTransactions ELSE EmptyMap

Constructor(file) ==
    /\ lastBlock' = LoadedLastBlock(file)
    /\ sentTransactions' = LoadedSent(file)
    /\ failedTransactions' = LoadedFailed(file)
    /\ stateFile' = SaveState(LoadedLastBlock(file), LoadedSent(file), LoadedFailed(file))

\* setLastBlock(blockNumber): the new value of _lastBlock.
SetLastBlock(blockNumber) == blockNumber

\* Variant of KeptBy that also drops the entries of blockNumber itself
\* (`<=` for `<` on line 158).
KeptByInclusive(sent, blockNumber) == {h \in DOMAIN sent : ~(sent[h] <= blockNumber)}

\* clearTransactionsBeforeBlock(blockNumber): the entries that stay.
KeptBy(sent, blockNumber) == {h \in DOMAIN sent : ~(sent[h] < blockNumber)}

ClearTransactionsBeforeBlock(sent, blockNumber) ==
    [h \in KeptBy(sent, blockNumber) |-> sent[h]]

\* addSentTransaction(pingTxHash, blockNumber), with its saveState().
AddSentTransaction(pingTxHash, blockNumber) ==
    /\ sentTransactions' = Put(sentTransactions, pingTxHash, blockNumber)
    /\ stateFile' = SaveState(lastBlock, sentTransactions', failedTransactions)
    /\ UNCHANGED <<lastBlock, failedTransactions>>

\* addFailedTransaction(pingTxHash, blockNumber), with its saveState().
AddFailedTransaction(pingTxHash, blockNumber) ==
    /\ failedTransactions' = Put(failedTransactions, pingTxHash, blockNumber)
    /\ stateFile' = SaveState(lastBlock, sentTransactions, failedTransactions')
    /\ UNCHANGED <<lastBlock, sentTransactions>>

\* ----------------------------------------------------------------- Queue -
Contains(q, event) ==
    \E i \in 1..Len(q) : q[i].transactionHash = event.transactionHash

\* Variant of Push without the duplicate check of line 76.
PushUnchecked(q, event) == Append(q, event)

\* Queue.push(event): the sequence after the push.
Push(q, event) == IF ~Contains(q, event) THEN Append(q, event) ELSE q

\* ---------------------------------------------------------------- init ---
Init ==
    /\ head = ConfigLastBlock
    /\ ponged = {}
    /\ \E file \in {NoFile} \cup
                   {SaveState(b, EmptyMap, EmptyMap) : b \in 0..ConfigLastBlock} :
          /\ lastBlock = LoadedLastBlock(file)
          /\ sentTransactions = LoadedSent(file)
          /\ failedTransactions = LoadedFailed(file)
          /\ stateFile = SaveState(LoadedLastBlock(file), LoadedSent(file),
                                   LoadedFailed(file))
    /\ queue = [n \in QueueNames |-> <<>>]
    /\ lock = [n \in QueueNames |-> FALSE]
    /\ handling = [n \in QueueNames |-> <<>>]
    /\ initPc = "getBlockNumber"
    /\ initLastBlock = lastBlock
    /\ currentBlock = NoBlock
    /\ listening = FALSE
    /\ delivered = {}
    /\ passes = EmptyBag
    /\ lastOp = NoOp

\* ------------------------------------------------------------ the chain --
\* A new block is mined.
NewBlock ==
    /\ head < MaxHead
    /\ head' = head + 1
    /\ lastOp' = Op("newBlock")
    /\ UNCHANGED <<ponged, storeVars, queueVars, initVars, delivered, passes>>

\* ------------------------------------------- Bot.catchMissedEventsFromTo --
\* Line 298: the event has no pong recorded.
NotYetSent(sent, event) == event.transactionHash \notin DOMAIN sent

\* Lines 294-302: the common queue after the loop over the queried events.
RECURSIVE PushMissed(_, _, _)
PushMissed(q, events, sent) ==
    IF events = <<>>
    THEN q
    ELSE PushMissed(IF NotYetSent(sent, Head(events)) THEN Push(q, Head(events)) ELSE q,
                    Tail(events), sent)

\* Variant of RangeNotEmpty that also queries when the two blocks are equal
\* (`>=` for `>` on line 290).
RangeNotEmptyInclusive(startBlockNumber, endBlockNumber) ==
    endBlockNumber >= startBlockNumber

\* Line 290: the range is queried.
RangeNotEmpty(startBlockNumber, endBlockNumber) == endBlockNumber > startBlockNumber

\* Line 292: the events the query of (startBlockNumber, endBlockNumber] returns.
MissedEvents(startBlockNumber, endBlockNumber) ==
    QueryFilter(startBlockNumber + 1, endBlockNumber)

\* Lines 294-306: what runs, without suspension, once the events are known
\* (or at once, when the range is empty and events = <<>>).
CatchMissedEnd(events, startBlockNumber, endBlockNumber) ==
    /\ queue' = [queue EXCEPT ![COMMON_PING_EVENT_QUEUE] =
                     PushMissed(@, events, sentTransactions)]
    /\ lastBlock' = SetLastBlock(endBlockNumber)
    /\ sentTransactions' = ClearTransactionsBeforeBlock(sentTransactions, endBlockNumber)
    /\ stateFile' = SaveState(lastBlock', sentTransactions', failedTransactions)
    /\ lastOp' = [op |-> "catchMissedEventsFromTo", q |-> "", tx |-> 0,
                  fromBlock |-> startBlockNumber, toBlock |-> endBlockNumber,
                  cleared |-> DOMAIN sentTransactions \ DOMAIN sentTransactions']
    /\ UNCHANGED <<failedTransactions, lock, handling>>

\* -------------------------------------------------------------- Bot.init --
\* Lines 214-224: getBlockNumber resolves, the Ping handler is registered and
\* catchMissedEventsFromTo(lastBlock, currentBlock) runs up to its query.
InitGotBlockNumber ==
    /\ initPc = "getBlockNumber"
    /\ currentBlock' = head
    /\ listening' = TRUE
    /\ IF RangeNotEmpty(initLastBlock, head)
       THEN /\ initPc' = "queryFilter"
            /\ lastOp' = Op("init")
            /\ UNCHANGED <<storeVars, queueVars>>
       ELSE /\ initPc' = "running"
            /\ CatchMissedEnd(<<>>, initLastBlock, head)
    /\ UNCHANGED <<chainVars, initLastBlock, delivered, passes>>

\* Lines 292-306, 226-232: the start-up query resolves; the intervals start.
InitQueryDone ==
    /\ initPc = "queryFilter"
    /\ CatchMissedEnd(MissedEvents(initLastBlock, currentBlock), initLastBlock,
                      currentBlock)
    /\ initPc' = "running"
    /\ UNCHANGED <<chainVars, initLastBlock, currentBlock, listening, delivered, passes>>

\* Line 335: getBlockNumber or the start-up query rejects; init() ends in its
\* catch and no interval is ever started.
InitRejected ==
    /\ initPc \in {"getBlockNumber", "queryFilter"}
    /\ initPc' = "rejected"
    /\ lastOp' = Op("initRejected")
    /\ UNCHANGED <<chainVars, storeVars, queueVars, initLastBlock, currentBlock,
                   listening, delivered, passes>>

\* Lines 217-222: the subscription notifies a mined Ping event.
LiveAccepts(event, startBlock) == event.blockNumber > startBlock

LivePing(h) ==
    /\ listening
    /\ BlockOf(h) <= head
    /\ h \notin delivered
    /\ delivered' = delivered \cup {h}
    /\ queue' = [queue EXCEPT ![COMMON_PING_EVENT_QUEUE] =
                     IF LiveAccepts(EventLog(h), currentBlock)
                     THEN Push(@, EventLog(h))
                     ELSE @]
    /\ lastOp' = [Op("ping") EXCEPT !.tx = h]
    /\ UNCHANGED <<chainVars, storeVars, lock, handling, initVars, passes>>

\* ------------------------------------------- the reconciliation interval --
\* Lines 228-230: the interval fires, reads lastBlock and awaits getBlockNumber.
IntervalTick ==
    /\ initPc = "running"
    /\ BagCardinality(passes) < MaxPasses
    /\ passes' = passes (+) SetToBag({[fromBlock |-> lastBlock, toBlock |-> NoBlock,
                                       pc |-> "getBlockNumber"]})
    /\ lastOp' = Op("interval")
    /\ UNCHANGED <<chainVars, storeVars, queueVars, initVars, delivered>>

\* Lines 230-231, 290-292: getBlockNumber resolves; catchMissedEventsFromTo
\* runs up to its query, or to its end when the range is empty.
PassGotBlockNumber(p) ==
    /\ p.pc = "getBlockNumber"
    /\ IF RangeNotEmpty(p.fromBlock, head)
       THEN /\ passes' = (passes (-) SetToBag({p})) (+)
                             SetToBag({[p EXCEPT !.toBlock = head, !.pc = "queryFilter"]})
            /\ lastOp' = Op("interval")
            /\ UNCHANGED <<storeVars, queueVars>>
       ELSE /\ passes' = passes (-) SetToBag({p})
            /\ CatchMissedEnd(<<>>, p.fromBlock, head)
    /\ UNCHANGED <<chainVars, initVars, delivered>>

\* Lines 292-306: the query of a periodic pass resolves.
PassQueryDone(p) ==
    /\ p.pc = "queryFilter"
    /\ CatchMissedEnd(MissedEvents(p.fromBlock, p.toBlock), p.fromBlock, p.toBlock)
    /\ passes' = passes (-) SetToBag({p})
    /\ UNCHANGED <<chainVars, initVars, delivered>>

\* getBlockNumber or the query of a periodic pass rejects: the callback ends.
PassRejected(p) ==
    /\ passes' = passes (-) SetToBag({p})
    /\ lastOp' = Op("intervalRejected")
    /\ UNCHANGED <<chainVars, storeVars, queueVars, initVars, delivered>>

\* ------------------------------------------------------- Bot.queueHandle --
RemoveAt(s, i) == SubSeq(s, 1, i - 1) \o SubSeq(s, i + 1, Len(s))

\* Variant of Locked with one lock shared by the two queues.
LockShared(n) == \E m \in QueueNames : lock[m]

\* Variant of Locked without the guard of line 236.
LockIgnored(n) == FALSE

\* Line 236: the guard of a drain.
Locked(n) == lock[n]

GasModifier(n) == IF n = COMMON_PING_EVENT_QUEUE THEN CommonGasModifier ELSE ForceGasModifier

\* Lines 235-248, 270-274: a drain tick, up to the await of contract.pong.
QueueHandle(n) ==
    /\ initPc = "running"
    /\ IF Locked(n)
       THEN /\ lastOp' = [Op("queueHandleLocked") EXCEPT !.q = n]
            /\ UNCHANGED queueVars
       ELSE IF queue[n] = <<>>
       THEN /\ lock' = [lock EXCEPT ![n] = FALSE]
            /\ lastOp' = [Op("queueHandleEmpty") EXCEPT !.q = n]
            /\ UNCHANGED <<queue, handling>>
       ELSE /\ lock' = [lock EXCEPT ![n] = TRUE]
            /\ queue' = [queue EXCEPT ![n] = Tail(@)]
            /\ handling' = [handling EXCEPT ![n] =
                   Append(@, [event |-> Head(queue[n]),
                              gasLimit |-> DefaultGasLimit * GasModifier(n),
                              pc |-> "pong"])]
            /\ lastOp' = [Op("queueHandle") EXCEPT !.q = n,
                                                   !.tx = Head(queue[n]).transactionHash]
    /\ UNCHANGED <<chainVars, storeVars, initVars, delivered, passes>>

\* Lines 274-276: contract.pong resolves; sendPong awaits the receipt.
PongSubmitted(n, i) ==
    /\ handling[n][i].pc = "pong"
    /\ handling' = [handling EXCEPT ![n][i].pc = "wait"]
    /\ lastOp' = [Op("pongSubmitted") EXCEPT !.q = n,
                                             !.tx = handling[n][i].event.transactionHash]
    /\ UNCHANGED <<chainVars, storeVars, queue, lock, initVars, delivered, passes>>

\* Lines 276-279, 252-253: the receipt has status 1.
PongConfirmed(n, i) ==
    /\ handling[n][i].pc = "wait"
    /\ AddSentTransaction(handling[n][i].event.transactionHash,
                          handling[n][i].event.blockNumber)
    /\ ponged' = ponged \cup {handling[n][i].event.transactionHash}
    /\ lock' = [lock EXCEPT ![n] = FALSE]
    /\ handling' = [handling EXCEPT ![n] = RemoveAt(@, i)]
    /\ lastOp' = [Op("pongConfirmed") EXCEPT !.q = n,
                                             !.tx = handling[n][i].event.transactionHash]
    /\ UNCHANGED <<head, queue, initVars, delivered, passes>>

\* Variant of handleErrorPong that escalates from every queue and never
\* records a failure.
HandleErrorPongRetry(event, n) ==
    /\ queue' = [queue EXCEPT ![FORCE_PING_EVENT_QUEUE] = Push(@, event)]
    /\ UNCHANGED storeVars

\* Lines 257-267: handleErrorPong.
HandleErrorPong(event, n) ==
    IF n = COMMON_PING_EVENT_QUEUE
    THEN /\ queue' = [queue EXCEPT ![FORCE_PING_EVENT_QUEUE] = Push(@, event)]
         /\ UNCHANGED storeVars
    ELSE /\ AddFailedTransaction(event.transactionHash, event.blockNumber)
         /\ UNCHANGED queue

\* Lines 249-253, 280-286: contract.pong or tx.wait throws, or the receipt
\* has another status.
PongFailed(n, i) ==
    /\ i \in 1..Len(handling[n])
    /\ HandleErrorPong(handling[n][i].event, n)
    /\ lock' = [lock EXCEPT ![n] = FALSE]
    /\ handling' = [handling EXCEPT ![n] = RemoveAt(@, i)]
    /\ lastOp' = [Op("pongFailed") EXCEPT !.q = n,
                                          !.tx = handling[n][i].event.transactionHash]
    /\ UNCHANGED <<chainVars, initVars, delivered, passes>>

\* ------------------------------------------------------------ the process -
\* The process is killed and started again: lines 325-335 run anew.
Restart ==
    /\ Constructor(stateFile)
    /\ queue' = [n \in QueueNames |-> <<>>]
    /\ lock' = [n \in QueueNames |-> FALSE]
    /\ handling' = [n \in QueueNames |-> <<>>]
    /\ initPc' = "getBlockNumber"
    /\ initLastBlock' = lastBlock'
    /\ currentBlock' = NoBlock
    /\ listening' = FALSE
    /\ delivered' = {}
    /\ passes' = EmptyBag
    /\ lastOp' = NoOp
    /\ UNCHANGED chainVars

Next ==
    \/ NewBlock
    \/ InitGotBlockNumber
    \/ InitQueryDone
    \/ InitRejected
    \/ \E h \in TxHashes : LivePing(h)
    \/ IntervalTick
    \/ \E p \in BagToSet(passes) : PassGotBlockNumber(p)
    \/ \E p \in BagToSet(passes) : PassQueryDone(p)
    \/ \E p \in BagToSet(passes) : PassRejected(p)
    \/ \E n \in QueueNames : QueueHandle(n)
    \/ \E n \in QueueNames : \E i \in 1..Len(handling[n]) : PongSubmitted(n, i)
    \/ \E n \in QueueNames : \E i \in 1..Len(handling[n]) : PongConfirmed(n, i)
    \/ \E n \in QueueNames : \E i \in 1..Len(handling[n]) : PongFailed(n, i)
    \/ Restart

Spec == Init /\ [][Next]_vars

\* ------------------------------------------------------------- typing ----
Blocks == 0..MaxHead

TypeOK ==
    /\ head \in ConfigLastBlock..MaxHead
    /\ ponged \subseteq TxHashes
    /\ lastBlock \in Blocks
    /\ DOMAIN sentTransactions \subseteq TxHashes
    /\ DOMAIN failedTransactions \subseteq TxHashes
    /\ stateFile = SaveState(lastBlock, sentTransactions, failedTransactions)
    /\ \A n \in QueueNames : lock[n] \in BOOLEAN
    /\ initPc \in {"getBlockNumber", "queryFilter", "running", "rejected"}
    /\ delivered \subseteq TxHashes
    /\ BagCardinality(passes) <= MaxPasses

\* ------------------------------------------------------------ vocabulary --
CatchMissedOp == "catchMissedEventsFromTo"

\* The hashes waiting in queue n.
Queued(n) == {queue[n][i].transactionHash : i \in 1..Len(queue[n])}

\* The hashes of the sendPong calls of queue n that are suspended.
InFlight(n) == {handling[n][i].event.transactionHash : i \in 1..Len(handling[n])}

AllQueued == UNION {Queued(n) : n \in QueueNames}
AllInFlight == UNION {InFlight(n) : n \in QueueNames}

\* ------------------------------------------------------------------ C1 ---
\* C1: exactly one response per event.  No sendPong call completes
\* successfully for a hash that already has a confirmed pong, and no drain
\* starts a sendPong call for a hash that has a confirmed pong or a call still
\* suspended.
C1_ExactlyOneResponse ==
    [][/\ lastOp'.op = "pongConfirmed" => lastOp'.tx \notin ponged
       /\ lastOp'.op = "queueHandle" =>
              lastOp'.tx \notin ponged \cup AllInFlight]_vars

\* ------------------------------------------------------------------ C2 ---
\* C2: watermark monotonicity.  No step lowers the stored lastBlock, and it
\* never falls below the configured floor.
C2_WatermarkMonotonic ==
    [][lastBlock' >= lastBlock /\ lastBlock' >= ConfigLastBlock]_vars

\* ------------------------------------------------------------------ C3 ---
\* C3: crash recovery.  At every moment (a crash may come at any), every
\* event that is queued or in flight and is in neither sent nor failed has a
\* block number above the persisted lastBlock, so that the start-up pass after
\* a restart queries its block.
Unresolved(h) ==
    h \notin DOMAIN stateFile.sentTransactions \cup DOMAIN stateFile.failedTransactions

C3_CrashRecoverable ==
    \A h \in AllQueued \cup AllInFlight :
        Unresolved(h) => BlockOf(h) > stateFile.lastBlock

\* ------------------------------------------------------------------ C4 ---
\* C4: escalation bound.  An event recorded in failed (both tiers failed) is
\* in neither queue, now and from then on.
C4_FailedNeverQueued ==
    \A h \in DOMAIN failedTransactions : h \notin AllQueued

\* ------------------------------------------------------------------ C5 ---
\* C5: exactly one success record.  A completed reconciliation pass pushes no
\* event into the common queue whose pong has already been confirmed.
C5_SentNeverPushedAgain ==
    [][lastOp'.op = CatchMissedOp =>
          \A h \in ponged :
              h \in Queued(COMMON_PING_EVENT_QUEUE)' =>
                  h \in Queued(COMMON_PING_EVENT_QUEUE)]_vars

\* ------------------------------------------------------------------ C6 ---
\* C6: idempotent reconciliation.  When catchMissedEventsFromTo(x, y) completes
\* right after a completed catchMissedEventsFromTo(x, y), the second one leaves
\* lastBlock, sent and failed as the first left them and adds nothing to the
\* common queue.
SameRange(a, b) ==
    /\ a.op = CatchMissedOp
    /\ b.op = CatchMissedOp
    /\ a.fromBlock = b.fromBlock
    /\ a.toBlock = b.toBlock
    /\ a.toBlock > a.fromBlock

C6_ReconcileIdempotent ==
    [][SameRange(lastOp, lastOp') =>
          /\ UNCHANGED storeVars
          /\ UNCHANGED queue]_vars

\* ------------------------------------------------------------------ C7 ---
\* C7: at most one in flight.  Each queue has at most one suspended sendPong
\* call, and a drain tick that fires while the queue's lock is set pops no
\* item and starts no call.
DrainOps == {"queueHandle", "queueHandleEmpty", "queueHandleLocked"}

C7_AtMostOneInFlight ==
    /\ [](\A n \in QueueNames : Len(handling[n]) <= 1)
    /\ [][(lastOp'.op \in DrainOps /\ lock[lastOp'.q]) =>
              UNCHANGED <<queue, handling>>]_vars

\* A drain tick has just fired on a queue whose drain is suspended.
C7_Witness ==
    /\ lastOp.op = "queueHandleLocked"
    /\ Len(handling[lastOp.q]) = 1
    /\ queue[lastOp.q] # <<>>

\* ------------------------------------------------------------------ C8 ---
\* C8: sent and failed are disjoint, and no hash in failed has a confirmed
\* pong.
C8_SentFailedDisjoint ==
    /\ DOMAIN sentTransactions \cap DOMAIN failedTransactions = {}
    /\ DOMAIN failedTransactions \cap ponged = {}

\* ------------------------------------------------------------------ C9 ---
\* C9: setLastBlock(n) below the stored value is refused and leaves lastBlock
\* and the snapshot's lastBlock as they were; otherwise it stores n.
C9_SetLastBlockGuarded ==
    [][lastOp'.op = CatchMissedOp =>
          IF lastOp'.toBlock < lastBlock
          THEN lastBlock' = lastBlock /\ stateFile'.lastBlock = stateFile.lastBlock
          ELSE lastBlock' = lastOp'.toBlock /\ stateFile'.lastBlock = lastOp'.toBlock]_vars

\* ----------------------------------------------------------------- C10 ---
\* C10: GC bound.  Right after catchMissedEventsFromTo(a, b) completes, sent
\* holds exactly the entries it held before whose blockNumber is at least b.
C10_GCBound ==
    [][lastOp'.op = CatchMissedOp =>
          /\ DOMAIN sentTransactions' =
                 {h \in DOMAIN sentTransactions : sentTransactions[h] >= lastOp'.toBlock}
          /\ \A h \in DOMAIN sentTransactions' :
                 sentTransactions'[h] = sentTransactions[h]]_vars

\* A pass has just completed that dropped one entry and kept another.
C10_Witness ==
    /\ lastOp.op = CatchMissedOp
    /\ lastOp.cleared # {}
    /\ DOMAIN sentTransactions # {}

\* ----------------------------------------------------------------- C11 ---
\* C11: queue dedup.  No queue ever holds two items with the same hash; a push
\* of a hash that is present leaves the sequence as it is, and a push of an
\* absent hash appends it at the tail.  Checked on the two handlers that push
\* one event: the Ping handler (common queue) and handleErrorPong (force queue).
NoDuplicates(q) ==
    \A i, j \in 1..Len(q) : i # j => q[i].transactionHash # q[j].transactionHash

AfterPush(q, h) ==
    IF \E i \in 1..Len(q) : q[i].transactionHash = h
    THEN q
    ELSE q \o <<[transactionHash |-> h, blockNumber |-> BlockOf(h)]>>

C11_QueueDedup ==
    /\ [](\A n \in QueueNames : NoDuplicates(queue[n]))
    /\ [][/\ (lastOp'.op = "ping" /\ BlockOf(lastOp'.tx) > currentBlock) =>
                 queue'[COMMON_PING_EVENT_QUEUE] =
                     AfterPush(queue[COMMON_PING_EVENT_QUEUE], lastOp'.tx)
          /\ (lastOp'.op = "pongFailed" /\ lastOp'.q = COMMON_PING_EVENT_QUEUE) =>
                 queue'[FORCE_PING_EVENT_QUEUE] =
                     AfterPush(queue[FORCE_PING_EVENT_QUEUE], lastOp'.tx)]_vars

\* The Ping handler has just pushed a hash that was already in the common
\* queue (it is there, and not at the tail, where a fresh push would put it).
C11_Witness ==
    /\ lastOp.op = "ping"
    /\ BlockOf(lastOp.tx) > currentBlock
    /\ lastOp.tx \in Queued(COMMON_PING_EVENT_QUEUE)
    /\ queue[COMMON_PING_EVENT_QUEUE][Len(queue[COMMON_PING_EVENT_QUEUE])].transactionHash
           # lastOp.tx

\* ----------------------------------------------------------------- C12 ---
\* A completed catchMissedEventsFromTo whose range is empty.
EmptyRangeOp(o) == o.op = CatchMissedOp /\ o.toBlock <= o.fromBlock

\* C12 (as claimed): catchMissedEventsFromTo(fromBlock, toBlock) with
\* toBlock <= fromBlock is a no-op: it enqueues nothing and leaves lastBlock,
\* sent and failed (and so the state file) unchanged.
C12_EmptyRangeNoOp ==
    [][EmptyRangeOp(lastOp') => UNCHANGED <<storeVars, queue>>]_vars

\* No suspended query has an empty range.
NoQueryOnEmptyRange ==
    /\ \A p \in BagToSet(passes) : p.pc = "queryFilter" => p.toBlock > p.fromBlock
    /\ initPc = "queryFilter" => currentBlock > initLastBlock

\* C12 (amended): catchMissedEventsFromTo(fromBlock, toBlock) with
\* toBlock <= fromBlock issues no query, enqueues nothing and leaves failed
\* unchanged, but it still stores lastBlock = toBlock and removes the sent
\* entries whose blockNumber is below toBlock.
C12_EmptyRangeEffect ==
    /\ []NoQueryOnEmptyRange
    /\ [][EmptyRangeOp(lastOp') =>
              /\ UNCHANGED <<queue, failedTransactions>>
              /\ lastBlock' = lastOp'.toBlock
              /\ stateFile'.lastBlock = lastOp'.toBlock
              /\ DOMAIN sentTransactions' =
                     {h \in DOMAIN sentTransactions :
                          sentTransactions[h] >= lastOp'.toBlock}]_vars

\* A pass with an empty range has just completed and removed a sent entry.
C12_Witness ==
    /\ EmptyRangeOp(lastOp)
    /\ lastOp.cleared # {}

\* ----------------------------------------------------------------- C13 ---
\* This step is the rejection of a range query: of the start-up pass, or of a
\* periodic pass.
QueryRejected ==
    \/ initPc = "queryFilter" /\ lastOp'.op = "initRejected"
    \/ /\ lastOp'.op = "intervalRejected"
       /\ \E p \in BagToSet(passes) :
              p.pc = "queryFilter" /\ passes' = passes (-) SetToBag({p})

\* The reconciliation interval of lines 228-232 is set.
IntervalScheduled == initPc = "running"

\* C13: source query failure.  When the range query of a pass fails, lastBlock
\* (and the rest of the store) is left as it was, nothing is enqueued, and the
\* reconciliation interval is scheduled afterwards, so that a later tick reads
\* the same lastBlock and queries the range again.
C13_QueryFailureRetried ==
    [][QueryRejected =>
          /\ UNCHANGED <<storeVars, queue>>
          /\ IntervalScheduled']_vars

\* ----------------------------------------------------------------- C14 ---
\* The process starts on any state file: absent, or a snapshot with any
\* lastBlock (below, at or above the configured floor) and any sent and failed
\* maps.  Only the start of the process (lines 325-335) is run.
TransactionMaps == UNION {[S -> Blocks] : S \in SUBSET TxHashes}

StartFiles ==
    {NoFile} \cup
    {SaveState(b, s, f) : b \in Blocks, s \in TransactionMaps, f \in TransactionMaps}

StartInit ==
    /\ head \in ConfigLastBlock..MaxHead
    /\ ponged = {}
    /\ stateFile \in StartFiles
    /\ lastBlock = NoBlock
    /\ sentTransactions = EmptyMap
    /\ failedTransactions = EmptyMap
    /\ queue = [n \in QueueNames |-> <<>>]
    /\ lock = [n \in QueueNames |-> FALSE]
    /\ handling = [n \in QueueNames |-> <<>>]
    /\ initPc = "stopped"
    /\ initLastBlock = NoBlock
    /\ currentBlock = NoBlock
    /\ listening = FALSE
    /\ delivered = {}
    /\ passes = EmptyBag
    /\ lastOp = Op("stopped")

StartNext == Restart

SpecStart == StartInit /\ [][StartNext]_vars

\* C14: start-up watermark.  Right after the construction of the state
\* manager getLastBlock() is the persisted lastBlock when the file exists and
\* its lastBlock is at least the configured floor, and the floor when the file
\* is absent or its lastBlock is below the floor; init() reads that value.
C14_StartupWatermark ==
    [][lastOp'.op = "constructor" =>
          /\ ~stateFile.exists => lastBlock' = ConfigLastBlock
          /\ (stateFile.exists /\ stateFile.lastBlock >= ConfigLastBlock) =>
                 lastBlock' = stateFile.lastBlock
          /\ (stateFile.exists /\ stateFile.lastBlock < ConfigLastBlock) =>
                 lastBlock' = ConfigLastBlock
          /\ initLastBlock' = lastBlock'
          /\ stateFile'.lastBlock = lastBlock']_vars

\* The state manager has just been constructed on a file whose lastBlock was
\* above the floor, and has adopted it.
C14_Witness ==
    /\ lastOp.op = "constructor"
    /\ initPc = "getBlockNumber"
    /\ lastBlock > ConfigLastBlock
    /\ DOMAIN sentTransactions # {}


\* ----------------------------------------------------------------- C15 ---
\* The executor call a drain tick has just started.
StartedCall(n) == handling'[n][Len(handling'[n])]

\* C15: two attempts per event.  A drain of the primary queue starts an
\* attempt with effort DefaultGasLimit x 1 only for an event that has had no
\* primary attempt yet: the event is neither waiting in the escalated queue nor
\* in flight from it (both mean its primary attempt has already failed in this
\* process), nor in flight from the primary queue; a drain of the escalated
\* queue starts an attempt with effort DefaultGasLimit x 2.
C15_TwoAttempts ==
    [][lastOp'.op = "queueHandle" =>
          /\ lastOp'.q = COMMON_PING_EVENT_QUEUE =>
                 /\ StartedCall(lastOp'.q).gasLimit = DefaultGasLimit * 1
                 /\ lastOp'.tx \notin Queued(FORCE_PING_EVENT_QUEUE)
                 /\ lastOp'.tx \notin InFlight(FORCE_PING_EVENT_QUEUE)
                 /\ lastOp'.tx \notin InFlight(COMMON_PING_EVENT_QUEUE)
          /\ lastOp'.q = FORCE_PING_EVENT_QUEUE =>
                 /\ StartedCall(lastOp'.q).gasLimit = DefaultGasLimit * 2
                 /\ lastOp'.tx \notin InFlight(FORCE_PING_EVENT_QUEUE)]_vars


\* ----------------------------------------------------------------- C16 ---
\* C16: primary failure escalates without a failure record.  When the pong of
\* a primary drain fails the event is in the escalated queue afterwards and
\* lastBlock, sent and failed (and the file) are unchanged; when the pong of an
\* escalated drain is confirmed the event then is in sent with its own block
\* number, not in failed, and in no queue.
C16_EscalateThenSucceed ==
    [][/\ (lastOp'.op = "pongFailed" /\ lastOp'.q = COMMON_PING_EVENT_QUEUE) =>
              /\ lastOp'.tx \in Queued(FORCE_PING_EVENT_QUEUE)'
              /\ UNCHANGED storeVars
       /\ (lastOp'.op = "pongConfirmed" /\ lastOp'.q = FORCE_PING_EVENT_QUEUE) =>
              /\ lastOp'.tx \in DOMAIN sentTransactions'
              /\ sentTransactions'[lastOp'.tx] = BlockOf(lastOp'.tx)
              /\ lastOp'.tx \notin DOMAIN failedTransactions'
              /\ lastOp'.tx \notin AllQueued']_vars


\* ----------------------------------------------------------------- C17 ---
\* C17: tier isolation.  A drain tick of a queue whose own lock is clear and
\* which is not empty pops exactly the head and starts the call for it,
\* whatever the other queue's lock and suspended calls are; and every drain
\* tick pops at most one item.
C17_TierIsolation ==
    [][lastOp'.op \in DrainOps =>
          /\ (~lock[lastOp'.q] /\ queue[lastOp'.q] # <<>>) =>
                 /\ lastOp'.op = "queueHandle"
                 /\ queue'[lastOp'.q] = Tail(queue[lastOp'.q])
                 /\ Len(handling'[lastOp'.q]) = Len(handling[lastOp'.q]) + 1
                 /\ StartedCall(lastOp'.q).event = Head(queue[lastOp'.q])
          /\ \A n \in QueueNames : Len(queue'[n]) >= Len(queue[n]) - 1
          /\ \A n \in QueueNames \ {lastOp'.q} : queue'[n] = queue[n]]_vars

\* A primary drain has just popped and started an event while a call of the
\* escalated queue is suspended in the executor.
C17_Witness ==
    /\ lastOp.op = "queueHandle"
    /\ lastOp.q = COMMON_PING_EVENT_QUEUE
    /\ lock[FORCE_PING_EVENT_QUEUE]
    /\ handling[FORCE_PING_EVENT_QUEUE] # <<>>
    /\ lastOp.tx \in InFlight(COMMON_PING_EVENT_QUEUE)


\* ----------------------------------------------------------------- C18 ---
\* The events of the start-up range (initLastBlock, currentBlock].
StartupRange == {h \in TxHashes : InRange(EventLog(h), initLastBlock + 1, currentBlock)}

\* The start-up reconciliation pass of this process ends, by completing or by
\* the rejection of its query.
StartupPassEnds ==
    /\ initPc = "queryFilter"
    /\ initPc' \in {"running", "rejected"}

\* C18: live/reconcile partition.  A live notification is pushed into the
\* primary queue (if not already there) when its block is above the head read
\* at start-up and changes nothing otherwise; and when the start-up pass ends,
\* every event of (lastBlock read at start-up, head read at start-up] that is
\* not in sent is in the primary queue, so that the events the live handler
\* drops have been taken by the pass.
C18_LiveReconcilePartition ==
    [][/\ lastOp'.op = "ping" =>
              IF BlockOf(lastOp'.tx) > currentBlock
              THEN queue' = [queue EXCEPT ![COMMON_PING_EVENT_QUEUE] =
                                 AfterPush(@, lastOp'.tx)]
              ELSE UNCHANGED queue
       /\ StartupPassEnds =>
              \A h \in StartupRange :
                  h \in DOMAIN sentTransactions \/ h \in Queued(COMMON_PING_EVENT_QUEUE)']_vars

\* The same with the start-up pass taken only when it completes.
StartupPassCompletes == initPc = "queryFilter" /\ initPc' = "running"

C18_PartitionWhenCompleted ==
    [][StartupPassCompletes =>
          \A h \in StartupRange :
              h \in DOMAIN sentTransactions \/ h \in Queued(COMMON_PING_EVENT_QUEUE)']_vars


\* ----------------------------------------------------------------- C19 ---
\* The pending places (primary queue, escalated queue, in flight from
\* the primary queue, in flight from the escalated queue) that hold hash h.
PendingPlaces(h) ==
    {<<"queue", n>> : n \in {m \in QueueNames : h \in Queued(m)}} \cup
    {<<"handling", n>> : n \in {m \in QueueNames : h \in InFlight(m)}}

\* C19: single pending location.  In every reachable state each event hash is
\* in at most one of: the primary queue, the escalated queue, a suspended call
\* of the primary queue, a suspended call of the escalated queue.
C19_SinglePendingLocation ==
    \A h \in TxHashes : Cardinality(PendingPlaces(h)) <= 1


\* ----------------------------------------------------------------- C20 ---
\* The number of reconciliation callbacks suspended at once under SpecLive.
MaxPassesLive == 1

\* The process is not killed and its start-up calls resolve, so that the three
\* intervals of lines 226-232 are set.
NextLive ==
    \/ NewBlock
    \/ InitGotBlockNumber
    \/ InitQueryDone
    \/ \E h \in TxHashes : LivePing(h)
    \/ BagCardinality(passes) < MaxPassesLive /\ IntervalTick
    \/ \E p \in BagToSet(passes) : PassGotBlockNumber(p)
    \/ \E p \in BagToSet(passes) : PassQueryDone(p)
    \/ \E p \in BagToSet(passes) : PassRejected(p)
    \/ \E n \in QueueNames : QueueHandle(n)
    \/ \E n \in QueueNames : \E i \in 1..Len(handling[n]) : PongSubmitted(n, i)
    \/ \E n \in QueueNames : \E i \in 1..Len(handling[n]) : PongConfirmed(n, i)
    \/ \E n \in QueueNames : \E i \in 1..Len(handling[n]) : PongFailed(n, i)

\* A step of the executor call of queue n: it resolves or rejects.
ExecutorReturns(n) ==
    \E i \in 1..Len(handling[n]) :
        PongSubmitted(n, i) \/ PongConfirmed(n, i) \/ PongFailed(n, i)

\* The drain intervals keep firing (setInterval, lines 226-227) and every
\* executor call returns.
Fairness ==
    /\ WF_vars(InitGotBlockNumber)
    /\ WF_vars(InitQueryDone)
    /\ \A n \in QueueNames : WF_vars(QueueHandle(n))
    /\ \A n \in QueueNames : WF_vars(ExecutorReturns(n))

SpecLive == Init /\ [][NextLive]_vars /\ Fairness

\* addSent or addFailed has just been recorded for h.
Recorded(h) ==
    \/ /\ lastOp.op = "pongConfirmed"
       /\ lastOp.tx = h
       /\ h \in DOMAIN sentTransactions
    \/ /\ lastOp.op = "pongFailed"
       /\ lastOp.tx = h
       /\ h \in DOMAIN failedTransactions

\* C20: eventual resolution.  With drain ticks that keep firing and executor
\* calls that return, every event in the primary queue eventually has addSent
\* or addFailed recorded for it, a lock that is held is eventually released,
\* and from some moment on both queues stay empty.
C20_EventualResolution ==
    /\ \A h \in TxHashes :
           (h \in Queued(COMMON_PING_EVENT_QUEUE)) ~> Recorded(h)
    /\ \A n \in QueueNames : lock[n] ~> ~lock[n]
    /\ <>[](\A n \in QueueNames : queue[n] = <<>>)

\* An event went through both queues and addFailed has just been recorded for
\* it; both queues are empty and both locks clear.
C20_Witness ==
    /\ lastOp.op = "pongFailed"
    /\ lastOp.q = FORCE_PING_EVENT_QUEUE
    /\ Recorded(lastOp.tx)
    /\ \A n \in QueueNames : queue[n] = <<>> /\ ~lock[n]
====
